---- MODULE Spec2Model ----
(***************************************************************************)
(* Model of rest_rpc/client/detail/async_sub_session.hpp: the per-session  *)
(* asynchronous state machine (sub_session) and the registry of sessions   *)
(* keyed by (endpoint, topic) (sub_manager).                               *)
(*                                                                         *)
(* Every asynchronous operation is modelled by two steps: the completion   *)
(* of the I/O together with the guard at the top of its handler            *)
(* (is_open() && running_flag_.load()), and then the rest of the handler.  *)
(* Handlers run on the worker threads of the io_service, so stop() on      *)
(* another thread can fall between the two steps.                          *)
(***************************************************************************)
EXTENDS Integers, Sequences, FiniteSets, TLC

\* ---------------------------------------------------------------- bounds
\* session objects built by sub() in the registry specification
MaxCalls == 3
\* endpoints and topics the registry specification subscribes to
NumEndpoints == 2
NumTopics == 2
\* largest head_t.len a peer sends
MaxLen == 2
\* steady-state frames read per session
MaxFrames == 3
\* heartbeat writes in flight per session, and error_ invocations per session
MaxHbWrites == 2
MaxErrors == 2

Ids == 1..MaxCalls
Endpoints == 1..NumEndpoints
Topics == 1..NumTopics
\* the bytes of a body: a body is told from another by its length, and from a
\* buffer that was sized but not filled by its content
WireBytes == {1}
BodiesOfLen(n) == [1..n -> WireBytes]

\* ------------------------------------------------------- protocol values
\* result_code carried by head_t.code of a reply
ResultOK == "OK"
ResultFAIL == "FAIL"
ResultCodes == {ResultOK, ResultFAIL}
NoHead == [len |-> 0, code |-> ResultOK]
Heads == [len : 0..MaxLen, code : ResultCodes]

\* completion status of an asynchronous operation (boost::system::error_code)
IoOk == "ok"
IoErr == "err"
IoResults == {IoOk, IoErr}

\* name of the subscribe procedure and the packed topic (forward.hpp, codec)
request_rpc == <<"s", "u", "b">>
PackTopic(t) == <<t>>

\* exception{ error_code::BADCONNECTION, error.message() }
BadConnection == [code |-> "BADCONNECTION", msg |-> "system error text"]
\* exception{ error_code::UNKNOWN, "Sub topic already existed!" }
AlreadyExisted == [code |-> "UNKNOWN", msg |-> "Sub topic already existed!"]
NoException == [code |-> "OK", msg |-> ""]

\* codec_policy::unpack<exception>(data, size): first byte is the error code,
\* the rest is the message
ErrorCodeOf(b) == IF b = 1 THEN "FAIL" ELSE "TIMEOUT"
Unpack(bytes) ==
    [code |-> IF Len(bytes) = 0 THEN "OK" ELSE ErrorCodeOf(bytes[1]),
     msg  |-> IF Len(bytes) = 0 THEN "" ELSE ToString(Tail(bytes))]

\* unpack<exception> of the codec policy of a second sub_manager, which
\* numbers the error codes the other way round
ErrorCodeOf_second(b) == IF b = 1 THEN "TIMEOUT" ELSE "FAIL"
Unpack_second(bytes) ==
    [code |-> IF Len(bytes) = 0 THEN "OK" ELSE ErrorCodeOf_second(bytes[1]),
     msg  |-> IF Len(bytes) = 0 THEN "" ELSE ToString(Tail(bytes))]

\* the static deserialize hook: unpack with the codec policy of the
\* sub_manager that installed it
Deserialize(hook, bytes) == IF hook = 1 THEN Unpack(bytes) ELSE Unpack_second(bytes)

\* ------------------------------------------------------------- variables
VARIABLES
    topics_,        \* sub_manager::topics_ : endpoint -> (topic -> session)
    topics2_,       \* topics_ of a second sub_manager of the process
    on_error_hook,  \* the static slot of sub_session::get_on_error()
    deser_hook,     \* the static slot of sub_session::get_deserialize_exception()
    sub_call,       \* per session: where the sub() call that built it stands
    thrown,         \* per session: what its sub() call threw
    sessions,       \* per session: the fields of the sub_session object
    ops,            \* per session: its outstanding asynchronous operations
    function_log,   \* per session: the payloads handed to function_
    error_log,      \* per session: the exceptions handed to error_
    frames          \* per session: the steady-state headers read off the wire

vars == <<topics_, topics2_, on_error_hook, deser_hook, sub_call, thrown, sessions, ops,
          function_log, error_log, frames>>

\* --------------------------------------------------------- std::map model
EmptyMap == [k \in {} |-> 0]
Has(m, k) == k \in DOMAIN m
\* std::map::emplace: inserts only when the key is absent
Emplace(m, k, v) ==
    IF Has(m, k) THEN m
    ELSE [x \in DOMAIN m \cup {k} |-> IF x = k THEN v ELSE m[x]]
\* std::map::erase of a found iterator
Erase(m, k) == [x \in DOMAIN m \ {k} |-> m[x]]

\* ------------------------------------------------------------ sub_session
\* position of the receive chain: the connect, the handshake write and the reads
NoOp == [op |-> "none", st |-> "none"]
Pending(o) == [op |-> o, st |-> "pending"]
Executing(o, ec) == [op |-> o, st |-> ec]

\* the operations of one session: the receive chain's position, the heartbeat
\* timer, the ping writes in flight and the failed ones whose handler is past
\* its guard; reads counts the async_read calls that have not completed, refs
\* the shared_ptr copies held by continuations and handlers
NoOps ==
    [rx |-> NoOp, hb_timer |-> "none", hb_writes |-> 0, hb_failed |-> 0,
     reads |-> 0, refs |-> 0]

ReadOps == {"response_sub_head", "response_sub_body", "sub_head", "sub_body"}

\* shared_from_this() bound into the handler of an operation that is issued
shared_from_this(o) == [o EXCEPT !.refs = @ + 1]

\* a handler returns: the shared_ptr bound into it is destroyed
handler_returns(o) == [o EXCEPT !.refs = @ - 1]

\* the handler of the receive chain returns and has issued nothing
handler_ends(o) == handler_returns([o EXCEPT !.rx = NoOp])

\* connection_.start(on_connect, on_fail): each of the two continuations
\* captures self
connection_start(o) == [o EXCEPT !.rx = Pending("connect"), !.refs = @ + 2]

\* a continuation of the connect returns: the connection lets go of both
continuation_returns(o) == [o EXCEPT !.refs = @ - 2]

\* boost::asio::async_read with the handler of receive-chain operation name
async_read(o, name) ==
    shared_from_this([o EXCEPT !.rx = Pending(name), !.reads = @ + 1])

\* request_sub: async_write of the handshake request
async_write_request(o) == shared_from_this([o EXCEPT !.rx = Pending("request_sub")])

\* recv_sub_head that issues the header read twice
recv_sub_head_twice(o) == async_read(async_read(o, "sub_head"), "sub_head")

\* recv_sub_head: async_read of recv_head_ with handle_sub_head
recv_sub_head(o) == async_read(o, "sub_head")

\* setup_heartbeat_timer that binds this instead of shared_from_this()
setup_heartbeat_timer_raw_this(o) == [o EXCEPT !.hb_timer = "pending"]

\* setup_heartbeat_timer: expires_from_now, async_wait with handle_heartbeat
setup_heartbeat_timer(o) == shared_from_this([o EXCEPT !.hb_timer = "pending"])

\* a session object that sub() has not built
Unbuilt ==
    [endpoint |-> 0, topic_string_ |-> 0, topic_ |-> <<>>, error_ |-> FALSE,
     running_flag_ |-> FALSE, open |-> FALSE,
     send_head_ |-> NoHead, recv_head_ |-> NoHead, response_ |-> <<>>]

\* sub_session::sub_session
NewSession(e, t, ef, flag) ==
    [endpoint |-> e, topic_string_ |-> t, topic_ |-> PackTopic(t), error_ |-> ef,
     running_flag_ |-> flag, open |-> FALSE,
     send_head_ |-> NoHead, recv_head_ |-> NoHead, response_ |-> <<>>]

get_endpoint(s) == sessions[s].endpoint
get_topic(s) == sessions[s].topic_string_

\* a guard that tests the socket alone
Alive_ignores_running(s) == sessions[s].open

\* the guard every completion handler starts with
Alive(s) == sessions[s].open /\ sessions[s].running_flag_

\* a header of length 0 taken for one that announces a body
HasBody_or_empty(head) == head.len >= 0

\* recv_head_.len > 0: a body follows the header
HasBody(head) == head.len > 0

\* response_.resize(n): keeps a prefix, fills with zero bytes
Resize(buf, n) == [i \in 1..n |-> IF i <= Len(buf) THEN buf[i] ELSE 0]

\* ------------------------------------------------------------ sub_manager
\* remove that erases the endpoint when it does not find the topic
remove_erase_on_miss(m, s) ==
    LET e == get_endpoint(s)
        t == get_topic(s)
    IN  IF ~Has(m, e) THEN m
        ELSE IF Has(m[e], t) /\ DOMAIN m[e] # {t}
             THEN [m EXCEPT ![e] = Erase(m[e], t)]
             ELSE Erase(m, e)

\* remove that leaves an endpoint whose topic map became empty
remove_keep_bucket(m, s) ==
    LET e == get_endpoint(s)
        t == get_topic(s)
    IN  IF ~Has(m, e) THEN m
        ELSE IF Has(m[e], t) THEN [m EXCEPT ![e] = Erase(m[e], t)] ELSE m

\* sub_manager::remove, on the registry map m
remove(m, s) ==
    LET e == get_endpoint(s)
        t == get_topic(s)
    IN  IF ~Has(m, e) THEN m
        ELSE LET topics_in_endpoint == IF Has(m[e], t) THEN Erase(m[e], t) ELSE m[e]
             IN  IF DOMAIN topics_in_endpoint = {}
                 THEN Erase(m, e)
                 ELSE [m EXCEPT ![e] = topics_in_endpoint]

\* a lookup of the topic in the endpoint map instead of the endpoint's topic map
topic_found_outer(m, e, t) == Has(m, e) /\ Has(m, t)

\* the branch of sub_impl that throws
topic_found(m, e, t) == Has(m, e) /\ Has(m[e], t)

\* the registry map after sub_impl registered session s
Registered(m, e, t, s) ==
    IF ~Has(m, e)
    THEN Emplace(m, e, Emplace(EmptyMap, t, s))
    ELSE [m EXCEPT ![e] = Emplace(m[e], t, s)]

\* the session registered under a key, 0 when there is none
Lookup(m, e, t) == IF Has(m, e) /\ Has(m[e], t) THEN m[e][t] ELSE 0

\* ------------------------------------------------------------------ Init
\* the state after sub_manager::sub_manager: an empty registry, both static
\* hooks bound to this registry (its remove, its codec)
Init ==
    /\ topics_ = EmptyMap
    /\ topics2_ = EmptyMap
    /\ on_error_hook = 1
    /\ deser_hook = 1
    /\ sub_call = [s \in Ids |-> "none"]
    /\ thrown = [s \in Ids |-> NoException]
    /\ sessions = [s \in Ids |-> Unbuilt]
    /\ ops = [s \in Ids |-> NoOps]
    /\ function_log = [s \in Ids |-> <<>>]
    /\ error_log = [s \in Ids |-> <<>>]
    /\ frames = [s \in Ids |-> <<>>]

\* ------------------------------------------------------- sub_manager::sub
\* sub(): make_sub_session builds the session object, outside the lock.
\* running_flag_ is not initialised by the constructor: flag is its content.
make_sub_session(s, e, t, ef, flag) ==
    /\ sub_call[s] = "none"
    /\ s > 1 => sub_call[s - 1] # "none"
    /\ sessions' = [sessions EXCEPT ![s] = NewSession(e, t, ef, flag)]
    /\ sub_call' = [sub_call EXCEPT ![s] = "made"]
    /\ UNCHANGED <<topics_, topics2_, on_error_hook, deser_hook, thrown, ops,
                   function_log, error_log, frames>>

\* sub_session::start: the session object after running_flag_.store(true)
start(sess) == [sess EXCEPT !.running_flag_ = TRUE]

\* sub_manager::sub_impl, under the registry lock: throws when the key is
\* registered, else registers the session and starts it (connection_.start)
sub_impl(s) ==
    /\ sub_call[s] = "made"
    /\ IF topic_found(topics_, get_endpoint(s), get_topic(s))
       THEN /\ thrown' = [thrown EXCEPT ![s] = AlreadyExisted]
            /\ sub_call' = [sub_call EXCEPT ![s] = "thrown"]
            /\ UNCHANGED <<topics_, sessions, ops>>
       ELSE /\ topics_' = Registered(topics_, get_endpoint(s), get_topic(s), s)
            /\ sessions' = [sessions EXCEPT ![s] = start(@)]
            /\ ops' = [ops EXCEPT ![s] = connection_start(@)]
            /\ sub_call' = [sub_call EXCEPT ![s] = "started"]
            /\ UNCHANGED thrown
    /\ UNCHANGED <<topics2_, on_error_hook, deser_hook, function_log, error_log, frames>>

\* sub_manager::remove called with a session, under the registry lock
remove_call(s) ==
    /\ sub_call[s] # "none"
    /\ topics_' = remove(topics_, s)
    /\ UNCHANGED <<topics2_, on_error_hook, deser_hook, sub_call, thrown, sessions,
                   ops, function_log, error_log, frames>>

\* -------------------------------------------------------- sub_session::stop
stop(s) ==
    /\ sub_call[s] = "started"
    /\ sessions' = [sessions EXCEPT ![s].running_flag_ = FALSE]
    /\ UNCHANGED <<topics_, topics2_, on_error_hook, deser_hook, sub_call, thrown, ops,
                   function_log, error_log, frames>>

\* ---------------------------------------------------- sub_session::on_error
\* on_error with a hook that is bound to the sub_manager of the session
on_error_own_registry(s, e) ==
    /\ error_log' = IF sessions[s].error_
                    THEN [error_log EXCEPT ![s] = Append(@, e)]
                    ELSE error_log
    /\ topics_' = IF Lookup(topics_, get_endpoint(s), get_topic(s)) = s
                  THEN remove(topics_, s) ELSE topics_
    /\ topics2_' = IF Lookup(topics2_, get_endpoint(s), get_topic(s)) = s
                   THEN remove(topics2_, s) ELSE topics2_

\* on_error(exception): the user's error callback when one was supplied, then
\* the static hook, which is bound to the remove of the sub_manager that was
\* constructed last
on_error(s, e) ==
    /\ error_log' = IF sessions[s].error_
                    THEN [error_log EXCEPT ![s] = Append(@, e)]
                    ELSE error_log
    /\ topics_' = IF on_error_hook = 1 THEN remove(topics_, s) ELSE topics_
    /\ topics2_' = IF on_error_hook = 2 THEN remove(topics2_, s) ELSE topics2_

\* on_error() that reports a transport failure instead of the peer's exception
on_error_response_as_io(s) == on_error(s, BadConnection)

\* on_error(): the exception is deserialized from response_ by the static hook
on_error_response(s) ==
    IF deser_hook # 0
    THEN on_error(s, Deserialize(deser_hook, sessions[s].response_))
    ELSE UNCHANGED <<error_log, topics_, topics2_>>

\* ------------------------------------------------- completions of the I/O
\* a guard that tests running_flag_ alone
Enter_ignores_socket(s, o, ec) ==
    IF sessions[s].running_flag_ THEN Executing(o, ec) ELSE NoOp

\* what a handler does first: return when the socket is closed or the session
\* is not running, else go on with the error code of the operation
Enter(s, o, ec) == IF Alive(s) THEN Executing(o, ec) ELSE NoOp

\* receive-chain operation name completes with ec and its handler starts: a
\* handler that returns at the guard lets go of the session
Completed(o, s, name, ec) ==
    LET r == [o EXCEPT !.rx = Enter(s, name, ec),
                       !.reads = IF name \in ReadOps THEN @ - 1 ELSE @]
    IN  IF r.rx = NoOp THEN handler_returns(r) ELSE r

RxOp(s) == ops[s].rx.op
RxSt(s) == ops[s].rx.st
HandlerRuns(s, o) == RxOp(s) = o /\ RxSt(s) \in IoResults

\* async_connection::start: the connect completes, the socket is open on success
connect_complete(s, ec) ==
    /\ ops[s].rx = Pending("connect")
    /\ sessions' = [sessions EXCEPT ![s].open = (ec = IoOk)]
    /\ ops' = [ops EXCEPT ![s].rx = Executing("connect", ec)]
    /\ UNCHANGED <<topics_, topics2_, on_error_hook, deser_hook, sub_call, thrown,
                   function_log, error_log, frames>>

\* the handshake write completes
write_complete(s, ec) ==
    /\ ops[s].rx = Pending("request_sub")
    /\ ops' = [ops EXCEPT ![s] = Completed(@, s, "request_sub", ec)]
    /\ UNCHANGED <<topics_, topics2_, on_error_hook, deser_hook, sub_call, thrown, sessions,
                   function_log, error_log, frames>>

\* a read of a header or of a body fails: the buffers keep their content
read_fail(s) ==
    /\ RxSt(s) = "pending"
    /\ RxOp(s) \in ReadOps
    /\ ops' = [ops EXCEPT ![s] = Completed(@, s, RxOp(s), IoErr)]
    /\ UNCHANGED <<topics_, topics2_, on_error_hook, deser_hook, sub_call, thrown, sessions,
                   function_log, error_log, frames>>

\* a read of a header succeeds: recv_head_ holds the header the peer sent
\* (a steady-state frame carries the code OK, which no handler reads)
read_head(s, head) ==
    /\ RxSt(s) = "pending"
    /\ RxOp(s) \in {"response_sub_head", "sub_head"}
    /\ RxOp(s) = "sub_head" => Len(frames[s]) < MaxFrames /\ head.code = ResultOK
    /\ sessions' = [sessions EXCEPT ![s].recv_head_ = head]
    /\ frames' = IF RxOp(s) = "sub_head"
                 THEN [frames EXCEPT ![s] = Append(@, head.len)]
                 ELSE frames
    /\ ops' = [ops EXCEPT ![s] = Completed(@, s, RxOp(s), IoOk)]
    /\ UNCHANGED <<topics_, topics2_, on_error_hook, deser_hook, sub_call, thrown,
                   function_log, error_log>>

\* a read of a body succeeds: response_, sized by the handler before, is filled
read_body(s, body) ==
    /\ RxSt(s) = "pending"
    /\ RxOp(s) \in {"response_sub_body", "sub_body"}
    /\ Len(body) = Len(sessions[s].response_)
    /\ sessions' = [sessions EXCEPT ![s].response_ = body]
    /\ ops' = [ops EXCEPT ![s] = Completed(@, s, RxOp(s), IoOk)]
    /\ UNCHANGED <<topics_, topics2_, on_error_hook, deser_hook, sub_call, thrown,
                   function_log, error_log, frames>>

\* ---------------------------------------------------------------- handlers
\* the continuation start() hands to connection_.start for a connect that
\* succeeded: request_sub, which writes the handshake request while running
connected(s) ==
    /\ ops[s].rx = Executing("connect", IoOk)
    /\ IF sessions[s].running_flag_
       THEN /\ sessions' = [sessions EXCEPT ![s].send_head_.len =
                                Len(request_rpc) + Len(sessions[s].topic_) + 1]
            /\ ops' = [ops EXCEPT ![s] = continuation_returns(async_write_request(@))]
       ELSE /\ ops' = [ops EXCEPT ![s] = continuation_returns([@ EXCEPT !.rx = NoOp])]
            /\ UNCHANGED sessions
    /\ UNCHANGED <<topics_, topics2_, on_error_hook, deser_hook, sub_call, thrown,
                   function_log, error_log, frames>>

\* the continuation start() hands to connection_.start for a connect that
\* failed: stop()
connect_failed(s) ==
    /\ ops[s].rx = Executing("connect", IoErr)
    /\ sessions' = [sessions EXCEPT ![s].running_flag_ = FALSE]
    /\ ops' = [ops EXCEPT ![s] = continuation_returns([@ EXCEPT !.rx = NoOp])]
    /\ UNCHANGED <<topics_, topics2_, on_error_hook, deser_hook, sub_call, thrown,
                   function_log, error_log, frames>>

handle_request_sub(s) ==
    /\ HandlerRuns(s, "request_sub")
    /\ IF RxSt(s) = IoOk
       THEN /\ ops' = [ops EXCEPT ![s] = handler_returns(async_read(@, "response_sub_head"))]
            /\ UNCHANGED <<error_log, topics_, topics2_>>
       ELSE /\ on_error(s, BadConnection)
            /\ ops' = [ops EXCEPT ![s] = handler_ends(@)]
    /\ UNCHANGED <<on_error_hook, deser_hook, sub_call, thrown, sessions,
                   function_log, frames>>

handle_response_sub_head(s) ==
    /\ HandlerRuns(s, "response_sub_head")
    /\ IF RxSt(s) = IoOk
       THEN /\ IF HasBody(sessions[s].recv_head_)
               THEN /\ sessions' = [sessions EXCEPT ![s].response_ =
                                        Resize(@, sessions[s].recv_head_.len)]
                    /\ ops' = [ops EXCEPT ![s] = handler_returns(async_read(@, "response_sub_body"))]
               ELSE /\ ops' = [ops EXCEPT ![s] = handler_ends(@)]
                    /\ UNCHANGED sessions
            /\ UNCHANGED <<error_log, topics_, topics2_>>
       ELSE /\ on_error(s, BadConnection)
            /\ ops' = [ops EXCEPT ![s] = handler_ends(@)]
            /\ UNCHANGED sessions
    /\ UNCHANGED <<on_error_hook, deser_hook, sub_call, thrown,
                   function_log, frames>>

\* the ack of the handshake is taken whatever its code
AckAccepted_any(head) == head.code \in ResultCodes

\* handle_response_sub_body: result_code::OK == recv_head_.code
AckAccepted(head) == head.code = ResultOK

\* begin_sub_procedure without setup_heartbeat_timer
begin_sub_procedure_no_timer(o) == recv_sub_head(o)

\* begin_sub_procedure: setup_heartbeat_timer, then recv_sub_head
begin_sub_procedure(o) == recv_sub_head(setup_heartbeat_timer(o))

handle_response_sub_body(s) ==
    /\ HandlerRuns(s, "response_sub_body")
    /\ IF RxSt(s) = IoOk
       THEN IF AckAccepted(sessions[s].recv_head_)
            THEN /\ ops' = [ops EXCEPT ![s] = handler_returns(begin_sub_procedure(@))]
                 /\ UNCHANGED <<error_log, topics_, topics2_>>
            ELSE /\ on_error_response(s)
                 /\ ops' = [ops EXCEPT ![s] = handler_ends(@)]
       ELSE /\ on_error(s, BadConnection)
            /\ ops' = [ops EXCEPT ![s] = handler_ends(@)]
    /\ UNCHANGED <<on_error_hook, deser_hook, sub_call, thrown, sessions,
                   function_log, frames>>

handle_sub_head(s) ==
    /\ HandlerRuns(s, "sub_head")
    /\ IF RxSt(s) = IoOk
       THEN /\ IF HasBody(sessions[s].recv_head_)
               THEN /\ sessions' = [sessions EXCEPT ![s].response_ =
                                        Resize(@, sessions[s].recv_head_.len)]
                    /\ ops' = [ops EXCEPT ![s] = handler_returns(async_read(@, "sub_body"))]
               ELSE /\ ops' = [ops EXCEPT ![s] = handler_returns(recv_sub_head(@))]
                    /\ UNCHANGED sessions
            /\ UNCHANGED <<error_log, topics_, topics2_>>
       ELSE /\ on_error(s, BadConnection)
            /\ ops' = [ops EXCEPT ![s] = handler_ends(@)]
            /\ UNCHANGED sessions
    /\ UNCHANGED <<on_error_hook, deser_hook, sub_call, thrown,
                   function_log, frames>>

handle_sub_body(s) ==
    /\ HandlerRuns(s, "sub_body")
    /\ IF RxSt(s) = IoOk
       THEN /\ function_log' = [function_log EXCEPT ![s] =
                                    Append(@, sessions[s].response_)]
            /\ ops' = [ops EXCEPT ![s] = handler_returns(recv_sub_head(@))]
            /\ UNCHANGED <<error_log, topics_, topics2_>>
       ELSE /\ on_error(s, BadConnection)
            /\ ops' = [ops EXCEPT ![s] = handler_ends(@)]
            /\ UNCHANGED function_log
    /\ UNCHANGED <<on_error_hook, deser_hook, sub_call, thrown, sessions, frames>>

\* ----------------------------------------------------------- heartbeat chain
\* handle_heartbeat: async_write of the ping header with handle_send_hb
async_write_ping(o) == shared_from_this([o EXCEPT !.hb_writes = @ + 1])

\* the wait on hb_timer_ ends; handle_heartbeat starts with the guard
timer_expire(s) ==
    /\ ops[s].hb_timer = "pending"
    /\ ops[s].hb_writes + ops[s].hb_failed < MaxHbWrites
    /\ ops' = [ops EXCEPT ![s] = IF Alive(s)
                                  THEN [@ EXCEPT !.hb_timer = "exec"]
                                  ELSE handler_returns([@ EXCEPT !.hb_timer = "none"])]
    /\ UNCHANGED <<topics_, topics2_, on_error_hook, deser_hook, sub_call, thrown, sessions,
                   function_log, error_log, frames>>

\* handle_heartbeat past the guard: the ping write, then setup_heartbeat_timer
handle_heartbeat(s) ==
    /\ ops[s].hb_timer = "exec"
    /\ sessions' = [sessions EXCEPT ![s].send_head_ = NoHead]
    /\ ops' = [ops EXCEPT ![s] = handler_returns(setup_heartbeat_timer(async_write_ping(@)))]
    /\ UNCHANGED <<topics_, topics2_, on_error_hook, deser_hook, sub_call, thrown,
                   function_log, error_log, frames>>

\* a ping write completes; handle_send_hb starts with the guard and goes on
\* only for a write that failed
hb_write_complete(s, ec) ==
    /\ ops[s].hb_writes > 0
    /\ ec = IoErr => Len(error_log[s]) + ops[s].hb_failed < MaxErrors
    /\ ops' = [ops EXCEPT ![s] = IF Alive(s) /\ ec = IoErr
                                  THEN [@ EXCEPT !.hb_writes = @ - 1,
                                                 !.hb_failed = @ + 1]
                                  ELSE handler_returns([@ EXCEPT !.hb_writes = @ - 1])]
    /\ UNCHANGED <<topics_, topics2_, on_error_hook, deser_hook, sub_call, thrown, sessions,
                   function_log, error_log, frames>>

\* handle_send_hb past the guard, for a write that failed
handle_send_hb(s) ==
    /\ ops[s].hb_failed > 0
    /\ on_error(s, BadConnection)
    /\ ops' = [ops EXCEPT ![s] = handler_returns([@ EXCEPT !.hb_failed = @ - 1])]
    /\ UNCHANGED <<on_error_hook, deser_hook, sub_call, thrown, sessions,
                   function_log, frames>>

\* ------------------------------------------------- the rest of the process
\* the Connection closes the socket of a session, from any thread
socket_close(s) ==
    /\ sessions[s].open
    /\ sessions' = [sessions EXCEPT ![s].open = FALSE]
    /\ UNCHANGED <<topics_, topics2_, on_error_hook, deser_hook, sub_call, thrown, ops,
                   function_log, error_log, frames>>

\* sub_manager::sub_manager of a second sub_manager: both static hooks are
\* assigned again, bound to the new object and to its codec policy
sub_manager_second ==
    /\ on_error_hook = 1
    /\ on_error_hook' = 2
    /\ deser_hook' = 2
    /\ UNCHANGED <<topics_, topics2_, sub_call, thrown, sessions, ops,
                   function_log, error_log, frames>>

\* sub_impl of the second sub_manager, on its own topics_
sub_impl_second(s) ==
    /\ on_error_hook = 2
    /\ sub_call[s] = "made"
    /\ IF topic_found(topics2_, get_endpoint(s), get_topic(s))
       THEN /\ thrown' = [thrown EXCEPT ![s] = AlreadyExisted]
            /\ sub_call' = [sub_call EXCEPT ![s] = "thrown"]
            /\ UNCHANGED <<topics2_, sessions, ops>>
       ELSE /\ topics2_' = Registered(topics2_, get_endpoint(s), get_topic(s), s)
            /\ sessions' = [sessions EXCEPT ![s] = start(@)]
            /\ ops' = [ops EXCEPT ![s] = connection_start(@)]
            /\ sub_call' = [sub_call EXCEPT ![s] = "started"]
            /\ UNCHANGED thrown
    /\ UNCHANGED <<topics_, on_error_hook, deser_hook, function_log, error_log, frames>>

\* ------------------------------------------------------------ specifications
\* the key the protocol specification subscribes to
ProtoEndpoints == {1}
ProtoTopics == {1}
ProtoIds == {1}
CallIds == 1..MaxCalls

\* the sessions' protocol: subscriptions to one key, every completion and
\* handler, and stop() from any thread
Next ==
    \/ \E s \in ProtoIds, e \in ProtoEndpoints, t \in ProtoTopics,
          ef \in BOOLEAN, flag \in BOOLEAN : make_sub_session(s, e, t, ef, flag)
    \/ \E s \in ProtoIds : sub_impl(s)
    \/ \E s \in ProtoIds : stop(s)
    \/ \E s \in ProtoIds, ec \in IoResults : connect_complete(s, ec)
    \/ \E s \in ProtoIds : connected(s)
    \/ \E s \in ProtoIds : connect_failed(s)
    \/ \E s \in ProtoIds, ec \in IoResults : write_complete(s, ec)
    \/ \E s \in ProtoIds : read_fail(s)
    \/ \E s \in ProtoIds, head \in Heads : read_head(s, head)
    \/ \E s \in ProtoIds, n \in 0..MaxLen : \E body \in BodiesOfLen(n) : read_body(s, body)
    \/ \E s \in ProtoIds : handle_request_sub(s)
    \/ \E s \in ProtoIds : handle_response_sub_head(s)
    \/ \E s \in ProtoIds : handle_response_sub_body(s)
    \/ \E s \in ProtoIds : handle_sub_head(s)
    \/ \E s \in ProtoIds : handle_sub_body(s)
    \/ \E s \in ProtoIds : timer_expire(s)
    \/ \E s \in ProtoIds : handle_heartbeat(s)
    \/ \E s \in ProtoIds, ec \in IoResults : hb_write_complete(s, ec)
    \/ \E s \in ProtoIds : handle_send_hb(s)

Spec == Init /\ [][Next]_vars

\* the registry: sub() and remove() called in any order, from any thread, for
\* every key
NextRegistry ==
    \/ \E s \in CallIds, e \in Endpoints, t \in Topics,
          flag \in BOOLEAN : make_sub_session(s, e, t, FALSE, flag)
    \/ \E s \in CallIds : sub_impl(s)
    \/ \E s \in CallIds : remove_call(s)

SpecRegistry == Init /\ [][NextRegistry]_vars

\* the protocol with a Connection that may close the socket at any time
NextClose ==
    \/ Next
    \/ \E s \in ProtoIds : socket_close(s)

SpecClose == Init /\ [][NextClose]_vars

\* the session that subscribes to the protocol's key after the first one; its
\* peer does not answer the connect
LaterIds == {2}

\* the protocol of the first session, and a later sub() for the same key
NextResub ==
    \/ Next
    \/ \E s \in LaterIds, e \in ProtoEndpoints, t \in ProtoTopics :
          make_sub_session(s, e, t, FALSE, FALSE)
    \/ \E s \in LaterIds : sub_impl(s)

SpecResub == Init /\ [][NextResub]_vars

\* the protocol of the first session, a second sub_manager constructed at
\* any time, and a sub() of the second sub_manager for the same key
NextSecond ==
    \/ Next
    \/ sub_manager_second
    \/ \E s \in LaterIds, e \in ProtoEndpoints, t \in ProtoTopics :
          make_sub_session(s, e, t, FALSE, FALSE)
    \/ \E s \in LaterIds : sub_impl_second(s)

SpecSecond == Init /\ [][NextSecond]_vars

\* the io_service runs every handler that is ready, and every operation
\* that is outstanding completes, with success or with an error
RxCompletion(s) ==
    \/ \E ec \in IoResults : connect_complete(s, ec)
    \/ \E ec \in IoResults : write_complete(s, ec)
    \/ read_fail(s)
    \/ \E head \in Heads : read_head(s, head)
    \/ \E n \in 0..MaxLen : \E body \in BodiesOfLen(n) : read_body(s, body)
RxHandler(s) ==
    \/ connected(s)
    \/ connect_failed(s)
    \/ handle_request_sub(s)
    \/ handle_response_sub_head(s)
    \/ handle_response_sub_body(s)
    \/ handle_sub_head(s)
    \/ handle_sub_body(s)
HbWriteCompletion(s) == \E ec \in IoResults : hb_write_complete(s, ec)
Fairness ==
    \A s \in ProtoIds :
        /\ WF_vars(RxCompletion(s))
        /\ WF_vars(RxHandler(s))
        /\ WF_vars(timer_expire(s))
        /\ WF_vars(handle_heartbeat(s))
        /\ WF_vars(HbWriteCompletion(s))
        /\ WF_vars(handle_send_hb(s))

SpecFair == Init /\ [][Next]_vars /\ Fairness

\* ===================================================================== claims
Built(s) == sub_call[s] # "none"
Started(s) == sub_call[s] = "started"
\* the session a registry map holds under the key of session s, 0 for none
Holder(m, s) == Lookup(m, get_endpoint(s), get_topic(s))
\* stop() has returned for session s
Stopped(s) == Started(s) /\ ~sessions[s].running_flag_
\* this step is the handler of receive-chain operation o, past its guard
HandlerStep(s, o) == HandlerRuns(s, o) /\ ops'[s].rx # ops[s].rx
\* this step is handle_send_hb past its guard
HbFailStep(s) == ops'[s].hb_failed < ops[s].hb_failed

\* ---------------------------------------------------------------------- C1
\* C1: a sub_impl step for a key that is registered throws the "Sub topic
\* already existed!" exception, issues no connect for the newly built session
\* and leaves the session object and the registry as they were, the key still
\* held by the session that held it; also when the two sub() calls overlap.
C1_DuplicateSubscribeRejected ==
    [][\A s \in Ids :
        (sub_call[s] = "made" /\ sub_call'[s] # "made" /\ Holder(topics_, s) # 0)
        => /\ sub_call'[s] = "thrown"
           /\ thrown'[s] = AlreadyExisted
           /\ ops'[s] = NoOps
           /\ sessions'[s] = sessions[s]
           /\ topics_' = topics_
           /\ Holder(topics_', s) = Holder(topics_, s)
           /\ Holder(topics_', s) # s]_vars

\* two overlapping sub() calls for one key: the call that built its session
\* first took the lock second and threw, the other one is registered
C1_Witness ==
    \E s1 \in Ids, s2 \in Ids :
        /\ s1 < s2
        /\ sub_call[s1] = "thrown"
        /\ thrown[s1] = AlreadyExisted
        /\ ops[s1] = NoOps
        /\ Started(s2)
        /\ get_endpoint(s1) = get_endpoint(s2)
        /\ get_topic(s1) = get_topic(s2)
        /\ Holder(topics_, s1) = s2

\* ---------------------------------------------------------------------- C8
\* C8: for every session and every registry state reached, remove applied
\* twice gives what remove applied once gives, and remove for a session whose
\* endpoint or topic is not registered gives the registry back unchanged.
C8_RemoveIdempotent ==
    \A s \in Ids :
        Built(s) =>
            LET once == remove(topics_, s)
            IN  /\ remove(once, s) = once
                /\ Holder(once, s) = 0
                /\ Holder(topics_, s) = 0 => once = topics_

\* a session that was removed while another topic of its endpoint stays
\* registered: a second remove finds the endpoint but not the topic
C8_Witness ==
    \E s \in Ids :
        /\ Started(s)
        /\ Holder(topics_, s) = 0
        /\ Has(topics_, get_endpoint(s))

\* ---------------------------------------------------------------------- C9
\* C9: the registry never holds an endpoint with an empty topic map, and a
\* step that removes one key leaves every other key with the session it had.
NoEmptyBucket(m) == \A e \in DOMAIN m : DOMAIN m[e] # {}
OthersUntouched ==
    \A e \in Endpoints, t \in Topics :
        (Lookup(topics_, e, t) # 0 /\ Lookup(topics_', e, t) = 0)
        => \A e2 \in Endpoints, t2 \in Topics :
              <<e2, t2>> # <<e, t>> => Lookup(topics_', e2, t2) = Lookup(topics_, e2, t2)
C9_NoEmptyBucket ==
    /\ []NoEmptyBucket(topics_)
    /\ [][OthersUntouched]_vars

\* endpoint 1 still serves one topic after the other was removed, and an
\* endpoint whose only topic was removed is gone from the registry
C9_Witness ==
    \E s1 \in Ids, s2 \in Ids, s3 \in Ids :
        /\ Started(s1) /\ Started(s2) /\ Started(s3)
        /\ get_endpoint(s1) = get_endpoint(s2)
        /\ get_topic(s1) # get_topic(s2)
        /\ Holder(topics_, s1) = s1
        /\ Holder(topics_, s2) = 0
        /\ DOMAIN topics_[get_endpoint(s1)] = {get_topic(s1)}
        /\ get_endpoint(s3) # get_endpoint(s1)
        /\ ~Has(topics_, get_endpoint(s3))

\* ---------------------------------------------------------------------- C2
\* C2: once stop() has returned for a session, no step hands a payload to its
\* message callback or an exception to its error callback.
C2_NoCallbackAfterStop ==
    [][\A s \in Ids :
        Stopped(s) => /\ function_log'[s] = function_log[s]
                      /\ error_log'[s] = error_log[s]]_vars

MalformedHandshakeReply == [code |-> "MALFORMEDHANDSHAKEREPLY", msg |-> ""]
C4_ZeroLengthAckIsAnError ==
    [][\A s \in Ids :
        (/\ HandlerStep(s, "response_sub_head")
         /\ RxSt(s) = IoOk
         /\ sessions[s].recv_head_.len = 0)
        => /\ sessions[s].error_ =>
                 error_log'[s] = Append(error_log[s], MalformedHandshakeReply)
           /\ Holder(topics_', s) # s]_vars

\* ---------------------------------------------------------------------- C5
\* C5: the handler of a handshake ack body that was read with a code other
\* than OK hands the error callback, when supplied, the exception unpacked
\* from the body the header announced, removes the session from the registry
\* and leaves it with no operation outstanding; a started session with no
\* operation outstanding issues none, so it never enters Active.
C5_RejectedHandshakeReported ==
    [][\A s \in Ids :
        /\ (/\ HandlerStep(s, "response_sub_body")
            /\ RxSt(s) = IoOk
            /\ sessions[s].recv_head_.code # ResultOK)
           => /\ Len(sessions[s].response_) = sessions[s].recv_head_.len
              /\ \A i \in 1..Len(sessions[s].response_) :
                     sessions[s].response_[i] \in WireBytes
              /\ error_log'[s] = IF sessions[s].error_
                                 THEN Append(error_log[s], Unpack(sessions[s].response_))
                                 ELSE error_log[s]
              /\ Holder(topics_', s) # s
              /\ ops'[s] = NoOps
        /\ (Started(s) /\ ops[s] = NoOps) => ops'[s] = NoOps]_vars

\* a rejected handshake with a two-byte ack body, reported and removed
C5_Witness ==
    \E s \in Ids :
        /\ Started(s)
        /\ sessions[s].error_
        /\ sessions[s].recv_head_ = [len |-> 2, code |-> ResultFAIL]
        /\ error_log[s] = <<Unpack(<<1, 1>>)>>
        /\ Holder(topics_, s) = 0
        /\ ops[s] = NoOps

\* ---------------------------------------------------------------------- C6
\* C6: every step in which a session handles a failed connect, write or read
\* hands BadConnection to the error callback, when supplied, and leaves the
\* session out of the registry.
FailureStep(s) == (RxSt(s) = IoErr /\ ops'[s].rx # ops[s].rx) \/ HbFailStep(s)
C6_EveryFailureReported ==
    [][\A s \in Ids :
        FailureStep(s)
        => /\ sessions[s].error_ =>
                 error_log'[s] = Append(error_log[s], BadConnection)
           /\ Holder(topics_', s) # s]_vars

\* ---------------------------------------------------------------------- C7
\* C7: the sizes of the payloads handed to the message callback are, in
\* order, the non-zero lengths of the steady-state headers read, all of them
\* once the session waits for the next header and all but at most the last
\* one otherwise; every payload handed over was filled by its read.
IsPayload(n) == n > 0
Sizes(log) == [i \in 1..Len(log) |-> Len(log[i])]
IsPrefix(a, b) == Len(a) <= Len(b) /\ SubSeq(b, 1, Len(a)) = a
C7_DeliveryMatchesWire ==
    \A s \in Ids :
        LET want == SelectSeq(frames[s], IsPayload)
            got == Sizes(function_log[s])
        IN  /\ IsPrefix(got, want)
            /\ Len(want) - Len(got) <= 1
            /\ ops[s].rx = Pending("sub_head") => got = want
            /\ \A i \in 1..Len(function_log[s]) :
                   \A j \in 1..Len(function_log[s][i]) :
                       function_log[s][i][j] \in WireBytes

\* frames of length 2, 0, 1 were read: two payloads delivered, the 2-byte first
C7_Witness ==
    \E s \in Ids :
        /\ frames[s] = <<2, 0, 1>>
        /\ function_log[s] = <<<<1, 1>>, <<1>>>>

\* --------------------------------------------------------------------- C10
\* C10: a step in which a handler takes the error path leaves running_flag_
\* false.
ErrorPathStep(s) ==
    \/ (RxOp(s) # "connect" /\ RxSt(s) = IoErr /\ ops'[s].rx # ops[s].rx)
    \/ (/\ HandlerStep(s, "response_sub_body")
        /\ RxSt(s) = IoOk
        /\ sessions[s].recv_head_.code # ResultOK)
    \/ HbFailStep(s)
C10_ErrorPathStops ==
    [][\A s \in Ids : ErrorPathStep(s) => ~sessions'[s].running_flag_]_vars

\* ------------------------------------------------------------ more helpers
\* operations of session s that are outstanding or whose handler is running
InFlight(s) ==
    (IF ops[s].rx = NoOp THEN 0 ELSE 1) + (IF ops[s].hb_timer = "none" THEN 0 ELSE 1)
    + ops[s].hb_writes + ops[s].hb_failed
\* the handshake of session s: connect, request write, ack header, ack body
HandshakeOps == {"connect", "request_sub", "response_sub_head", "response_sub_body"}
\* the heartbeat chain of session s has an operation or a handler
HeartbeatBusy(s) ==
    ops[s].hb_timer # "none" \/ ops[s].hb_writes > 0 \/ ops[s].hb_failed > 0

\* --------------------------------------------------------------------- C11
\* C11: at every moment a session has at most one heartbeat ping write in
\* flight.
C11_OnePingInFlight == \A s \in Ids : ops[s].hb_writes <= 1

\* --------------------------------------------------------------------- C12
\* C12: a session never has more than one read outstanding, and a step that
\* issues a read is the handler of the operation of the receive chain that
\* completed before it (the handshake write or the previous read), run for a
\* success with no other read outstanding.
C12_OneReadOutstanding ==
    /\ [](\A s \in Ids : ops[s].reads <= 1)
    /\ [][\A s \in Ids :
            ops'[s].reads > ops[s].reads
            => /\ ops[s].reads = 0
               /\ RxOp(s) \in {"request_sub"} \cup ReadOps
               /\ RxSt(s) = IoOk]_vars

\* the read of the second payload's body is the one read outstanding
C12_Witness ==
    \E s \in Ids :
        /\ ops[s].reads = 1
        /\ ops[s].rx = Pending("sub_body")
        /\ Len(function_log[s]) = 1
        /\ Len(frames[s]) >= 2

\* --------------------------------------------------------------------- C13
\* C13: while the handshake of a session is under way (connect, request
\* write, ack header, ack body) its heartbeat chain is idle, no steady-state
\* read is issued and no frame or payload has been handled; the step that
\* ends this is the handler of an ack body that was read with success after
\* an ack header with code OK, it is the first such step of the session, and
\* a receive chain that has left the handshake never goes back to it, so the
\* heartbeat loop is started once.
IsActive(s) ==
    \/ HeartbeatBusy(s)
    \/ RxOp(s) \in {"sub_head", "sub_body"}
    \/ frames[s] # <<>>
    \/ function_log[s] # <<>>
IsActiveNext(s) ==
    \/ ops'[s].hb_timer # "none" \/ ops'[s].hb_writes > 0 \/ ops'[s].hb_failed > 0
    \/ ops'[s].rx.op \in {"sub_head", "sub_body"}
    \/ frames'[s] # <<>>
    \/ function_log'[s] # <<>>
C13_ActiveAfterHandshakeOnce ==
    /\ [](\A s \in Ids : IsActive(s) => RxOp(s) \notin HandshakeOps)
    /\ [][\A s \in Ids :
            /\ (~IsActive(s) /\ IsActiveNext(s))
               => /\ HandlerStep(s, "response_sub_body")
                  /\ RxSt(s) = IoOk
                  /\ sessions[s].recv_head_.code = ResultOK
                  /\ sessions[s].send_head_.len > 0
            /\ (ops[s].hb_timer = "none" /\ ops'[s].hb_timer # "none")
               => ~IsActive(s)
            /\ (Started(s) /\ RxOp(s) \notin HandshakeOps)
               => ops'[s].rx.op \notin HandshakeOps]_vars

\* an Active session that has handed over a payload and has a ping in flight
C13_Witness ==
    \E s \in Ids :
        /\ Alive(s)
        /\ function_log[s] # <<>>
        /\ ops[s].hb_writes = 1
        /\ ops[s].hb_timer = "pending"
        /\ ops[s].rx = Pending("sub_head")

\* --------------------------------------------------------------------- C14
\* C14: a handler of the handshake write, of a read, of the heartbeat timer
\* or of a ping write that starts while the socket is closed or running_flag_
\* is false ends in that step: no operation is issued, no callback and no
\* hook is invoked, the registries are as before, and the session's buffers
\* are as the completed operation left them (send_head_ untouched, response_
\* not resized, recv_head_ and response_ written by nothing but the read that
\* completed). request_sub, which tests running_flag_ alone, returns in the
\* same way when the flag is false.
QuietStep(s) ==
    /\ function_log'[s] = function_log[s]
    /\ error_log'[s] = error_log[s]
    /\ topics_' = topics_
    /\ topics2_' = topics2_
    /\ sessions'[s].send_head_ = sessions[s].send_head_
    /\ Len(sessions'[s].response_) = Len(sessions[s].response_)
    /\ sessions'[s].running_flag_ = sessions[s].running_flag_
    /\ sessions'[s].open = sessions[s].open
    /\ ops'[s].reads <= ops[s].reads
    /\ ops'[s].refs < ops[s].refs
    /\ ops'[s].hb_writes <= ops[s].hb_writes
    /\ ops'[s].hb_failed = ops[s].hb_failed
C14_GuardedHandlersDoNothing ==
    [][\A s \in Ids :
        /\ (/\ ~Alive(s)
            /\ RxSt(s) = "pending"
            /\ RxOp(s) # "connect"
            /\ ops'[s].rx # ops[s].rx)
           => /\ QuietStep(s)
              /\ ops'[s].rx = NoOp
              /\ ops'[s].hb_timer = ops[s].hb_timer
              /\ ops'[s].hb_writes = ops[s].hb_writes
              /\ RxOp(s) \notin {"response_sub_head", "sub_head"}
                     => sessions'[s].recv_head_ = sessions[s].recv_head_
              /\ RxOp(s) \notin {"response_sub_body", "sub_body"}
                     => sessions'[s].response_ = sessions[s].response_
        /\ (/\ ~Alive(s)
            /\ ops[s].hb_timer = "pending"
            /\ ops'[s].hb_timer # "pending")
           => /\ QuietStep(s)
              /\ ops'[s].hb_timer = "none"
              /\ ops'[s].hb_writes = ops[s].hb_writes
              /\ ops'[s].rx = ops[s].rx
              /\ sessions'[s] = sessions[s]
        /\ (~Alive(s) /\ ops'[s].hb_writes < ops[s].hb_writes)
           => /\ QuietStep(s)
              /\ ops'[s].hb_timer = ops[s].hb_timer
              /\ ops'[s].rx = ops[s].rx
              /\ sessions'[s] = sessions[s]
        /\ (/\ ~sessions[s].running_flag_
            /\ ops[s].rx = Executing("connect", IoOk)
            /\ ops'[s].rx # ops[s].rx)
           => /\ QuietStep(s)
              /\ ops'[s] = NoOps
              /\ sessions'[s] = sessions[s]]_vars

\* an Active session whose socket was closed: the read, the timer wait and
\* the ping write have completed, their handlers returned at the guard, and
\* the session is still running and registered with nothing reported
C14_Witness ==
    \E s \in Ids :
        /\ Started(s)
        /\ sessions[s].running_flag_
        /\ ~sessions[s].open
        /\ sessions[s].error_
        /\ error_log[s] = <<>>
        /\ frames[s] # <<>>
        /\ Holder(topics_, s) = s
        /\ ops[s] = NoOps

\* --------------------------------------------------------------------- C15
\* C15: in every state the shared_ptr copies that own a session (the ones
\* bound into its outstanding operations and running handlers, plus the
\* registry's while it is registered) are at least as many as its
\* operations that are outstanding or being handled, and so are the copies
\* of the operations alone: a session that left the registry is owned until
\* its last operation has completed.
Owners(s) ==
    ops[s].refs + (IF Holder(topics_, s) = s THEN 1 ELSE 0)
                + (IF Holder(topics2_, s) = s THEN 1 ELSE 0)
C15_OwnedWhileOutstanding ==
    \A s \in Ids :
        /\ Owners(s) >= InFlight(s)
        /\ ops[s].refs >= InFlight(s)
        /\ InFlight(s) > 0 => Owners(s) > 0

\* a session that failed on the receive chain and left the registry while
\* its heartbeat timer and a ping write are outstanding
C15_Witness ==
    \E s \in Ids :
        /\ Started(s)
        /\ Holder(topics_, s) = 0
        /\ ops[s].rx = NoOp
        /\ ops[s].hb_timer = "pending"
        /\ ops[s].hb_writes = 1
        /\ Owners(s) = 2

\* --------------------------------------------------------------------- C16
\* C16: both static hooks always belong to the sub_manager constructed last;
\* once a second sub_manager exists, a step in which a session registered
\* with the first one takes the error path leaves the first registry as it
\* was, the session still registered, applies the second sub_manager's
\* remove to the second registry, and for a rejected handshake hands the
\* error callback the exception unpacked by the second sub_manager's codec.
RejectedStep(s) ==
    /\ HandlerStep(s, "response_sub_body")
    /\ RxSt(s) = IoOk
    /\ sessions[s].recv_head_.code # ResultOK
C16_HooksAreProcessWide ==
    /\ [](on_error_hook = deser_hook)
    /\ [][\A s \in Ids :
            (on_error_hook = 2 /\ ErrorPathStep(s) /\ Holder(topics_, s) = s)
            => /\ topics_' = topics_
               /\ Holder(topics_', s) = s
               /\ topics2_' = remove(topics2_, s)
               /\ (RejectedStep(s) /\ sessions[s].error_)
                  => error_log'[s] =
                        Append(error_log[s], Unpack_second(sessions[s].response_))]_vars

\* the first sub_manager's session had its handshake rejected after a second
\* sub_manager was constructed: it is still in the first registry, its error
\* callback got the exception as the second codec unpacks it, and the session
\* the second sub_manager had registered under the same key is gone
C16_Witness ==
    \E s1 \in ProtoIds, s2 \in LaterIds :
        /\ on_error_hook = 2
        /\ Started(s1)
        /\ Holder(topics_, s1) = s1
        /\ sessions[s1].recv_head_.code = ResultFAIL
        /\ Len(sessions[s1].response_) > 0
        /\ error_log[s1] = <<Unpack_second(sessions[s1].response_)>>
        /\ Unpack_second(sessions[s1].response_) # Unpack(sessions[s1].response_)
        /\ ops[s1] = NoOps
        /\ Started(s2)
        /\ Holder(topics2_, s2) = 0

\* --------------------------------------------------------------------- C17
\* C17: the error callback of a session is handed at most one exception over
\* the session's life.
C17_ErrorCallbackAtMostOnce == \A s \in Ids : Len(error_log[s]) <= 1

\* --------------------------------------------------------------------- C18
\* C18: a registry entry leaves the registry, or changes the session it
\* holds, only in a step in which the session it holds takes the error path:
\* the failure of another session never erases it.
C18_RemoveOnlyOwnEntry ==
    [][\A e \in Endpoints, t \in Topics :
        LET held == Lookup(topics_, e, t)
        IN  (held # 0 /\ Lookup(topics_', e, t) # held) => ErrorPathStep(held)]_vars

\* --------------------------------------------------------------------- C19
\* C19: every started session whose running_flag_ is true is the session the
\* registry holds under its key, so no two running sessions share a key.
C19_RunningIsRegistered ==
    \A s \in Ids :
        (Started(s) /\ sessions[s].running_flag_)
        => /\ Holder(topics_, s) = s
           /\ \A s2 \in Ids :
                 (/\ Started(s2) /\ sessions[s2].running_flag_
                  /\ get_endpoint(s2) = get_endpoint(s)
                  /\ get_topic(s2) = get_topic(s))
                 => s2 = s

\* --------------------------------------------------------------------- C20
\* C20: when every outstanding operation completes and every ready handler
\* runs, a session for which stop() has returned reaches a state with no
\* read, write or timer wait outstanding and no handler running, and stays
\* there for ever.
C20_QuiescentAfterStop ==
    \A s \in ProtoIds : Stopped(s) ~> [](ops[s] = NoOps)

\* an Active session that was stopped while its socket stayed open, with
\* nothing outstanding any more
C20_Witness ==
    \E s \in Ids :
        /\ Stopped(s)
        /\ sessions[s].open
        /\ frames[s] # <<>>
        /\ ops[s] = NoOps

====
